---- MODULE Spec2Model ----
(***************************************************************************)
(* A model of lati-scanner's git log miner (src/src/git_logger.rs):        *)
(* log / summarise_commit / commit_file_changes / scan_diffs /             *)
(* summarise_delta / find_coauthors.                                       *)
(*                                                                         *)
(* Text is a sequence of tokens; the literal "Co-authored-by:" is one      *)
(* token.  Option<T> is a sequence of length 0 (None) or 1 (Some).         *)
(***************************************************************************)
EXTENDS Integers, Sequences, FiniteSets, TLC

VARIABLES
    pc,             \* position of the operation being run
    message,        \* find_coauthors: its argument
    co_authors,     \* find_coauthors: its return value
    delta,          \* summarise_delta: the DiffDelta argument
    lines_added,    \* summarise_delta: argument
    lines_deleted,  \* summarise_delta: argument
    change,         \* summarise_delta: its outcome
    repo,           \* the repository: its objects by id, and its rename settings
    config,         \* the Option<GitLogConfig> of the run
    commit,         \* commit_file_changes: the commit under examination
    file_changes,   \* commit_file_changes: its outcome
    walked,         \* log: what the revision walk has emitted so far
    entries,        \* log: the Option<GitLogEntry> values collected so far
    diffs,          \* log: the scan_diffs calls made so far (per walked object)
    result,         \* log: what log() returned
    failure,        \* log: the git2 call that failed during the run, "none" if none
    diff_deltas,    \* scan_diffs: the deltas of the diff, each with its blobs
    scan_result     \* scan_diffs: the outcome of scanning the deltas

vars == <<pc, message, co_authors, delta, lines_added, lines_deleted, change,
          repo, config, commit, file_changes, walked, entries, diffs, result,
          failure, diff_deltas, scan_result>>

----------------------------------------------------------------------------
(* Bounds *)

MaxMsgLen == 5
MaxLines == 2
MaxParents == 2
MaxWalk == 3
MaxOid == 3
MaxDeltas == 2

----------------------------------------------------------------------------
(* Option, and the outcome of a call that may panic *)

None == <<>>
Some(x) == <<x>>

Returned(v) == [panic |-> FALSE, value |-> v]
Panicked == [panic |-> TRUE, value |-> None]

Min(S) == CHOOSE x \in S : \A y \in S : x <= y
Max(S) == CHOOSE x \in S : \A y \in S : x >= y

SeqsUpTo(S, n) == UNION {[1..k -> S] : k \in 0..n}

RECURSIVE Concat(_)
Concat(ss) == IF ss = <<>> THEN <<>> ELSE Head(ss) \o Concat(Tail(ss))

----------------------------------------------------------------------------
(* Text *)

Keyword == "Co-authored-by:"
Whitespace == {" ", "\n"}
\* "co-authored-by:" is ordinary text: the keyword in another case.
MsgChars == {" ", "\n", Keyword, "co-authored-by:", "<", ">", "@", "a"}

\* str::trim
trim(s) ==
    LET keep == {i \in 1..Len(s) : s[i] \notin Whitespace}
    IN IF keep = {} THEN <<>> ELSE SubSeq(s, Min(keep), Max(keep))

\* str::contains(char)
contains(s, c) == \E i \in 1..Len(s) : s[i] = c

\* User::new
User(name, email) == [name |-> name, email |-> email]

----------------------------------------------------------------------------
(* find_coauthors *)

\* Regex ^(.*)<([^>]+)>$ : the places a "<" of a match can stand.
AngleOpens(text) ==
    {i \in 1..Len(text) :
        /\ text[i] = "<"
        /\ i + 1 <= Len(text) - 1
        /\ \A j \in (i + 1)..(Len(text) - 1) : text[j] # ">"
        /\ \A j \in 1..(i - 1) : text[j] # "\n"}

\* CO_AUTH_ANGLE_BRACKETS.captures(text): Some(<<group 1, group 2>>) or None.
\* Group 1 is greedy, so the last possible "<" opens group 2.
CO_AUTH_ANGLE_BRACKETS(text) ==
    IF Len(text) >= 3 /\ text[Len(text)] = ">" /\ AngleOpens(text) # {}
    THEN LET i == Max(AngleOpens(text))
         IN Some(<<SubSeq(text, 1, i - 1), SubSeq(text, i + 1, Len(text) - 1)>>)
    ELSE None

\* (?m)^ at position s (1..Len+1)
LineStart(m, s) == s = 1 \/ m[s - 1] = "\n"

\* \s* from position s: the first position at or after s that holds no whitespace
SkipSpace(m, s) == Min({k \in s..(Len(m) + 1) : k = Len(m) + 1 \/ m[k] \notin Whitespace})

\* (.*)$ from position k: the end of k's line (the position of its "\n", or Len+1)
LineEnd(m, k) == Min({e \in k..(Len(m) + 1) : e = Len(m) + 1 \/ m[e] = "\n"})

\* Where a match of (?m)^\s*Co-authored-by:(.*)$ can start, at or after `from`.
MatchStartsNoAnchor(m, from) ==
    {s \in from..Len(m) : SkipSpace(m, s) <= Len(m) /\ m[SkipSpace(m, s)] = Keyword}

MatchStarts(m, from) ==
    {s \in from..Len(m) :
        /\ LineStart(m, s)
        /\ SkipSpace(m, s) <= Len(m)
        /\ m[SkipSpace(m, s)] = Keyword}

\* CO_AUTH_LINE.captures_iter(message): group 1 of each successive leftmost match.
RECURSIVE CO_AUTH_LINE(_, _)
CO_AUTH_LINE(m, from) ==
    IF MatchStarts(m, from) = {} THEN <<>>
    ELSE LET s == Min(MatchStarts(m, from))
             k == SkipSpace(m, s)
             e == LineEnd(m, k)
         IN <<SubSeq(m, k + 1, e - 1)>> \o CO_AUTH_LINE(m, e)

\* The closure mapped over the captures (lines 188-201).
co_author(co_author_text) ==
    LET co_author_bits == CO_AUTH_ANGLE_BRACKETS(co_author_text)
    IN IF co_author_bits # None
       THEN User(trim(co_author_bits[1][1]), trim(co_author_bits[1][2]))
       ELSE IF contains(co_author_text, "@")
            THEN User(<<>>, trim(co_author_text))
            ELSE User(trim(co_author_text), <<>>)

find_coauthors(m) ==
    LET caps == CO_AUTH_LINE(m, 1)
    IN [i \in 1..Len(caps) |-> co_author(caps[i])]

----------------------------------------------------------------------------
(* summarise_delta *)

\* git2::Delta
Statuses == {"Unmodified", "Added", "Deleted", "Modified", "Renamed", "Copied",
             "Ignored", "Untracked", "Typechange", "Unreadable", "Conflicted"}

Paths == {"a", "b"}

\* git2::DiffFile, as far as the code reads it: path() is an Option.
DiffFile(path) == [path |-> path]

\* git2::DiffDelta, as far as the code reads it.
DiffDelta(status, old_path, new_path) ==
    [status |-> status, old_file |-> DiffFile(old_path), new_file |-> DiffFile(new_path)]

FileChange(file, old_file, ch, la, ld) ==
    [file |-> file, old_file |-> old_file, change |-> ch,
     lines_added |-> la, lines_deleted |-> ld]

\* Option::unwrap of the paths an arm reads: it panics on None.
\* Each arm of the match yields Option<FileChange>, or panics.
delta_added_with_old_path(d, la, ld) ==
    IF d.new_file.path = None THEN Panicked
    ELSE Returned(Some(FileChange(d.new_file.path[1], d.old_file.path, "Add", la, ld)))

delta_added(d, la, ld) ==
    IF d.new_file.path = None THEN Panicked
    ELSE Returned(Some(FileChange(d.new_file.path[1], None, "Add", la, ld)))

delta_renamed(d, la, ld) ==
    IF d.old_file.path = None \/ d.new_file.path = None THEN Panicked
    ELSE Returned(Some(FileChange(d.new_file.path[1], Some(d.old_file.path[1]),
                                  "Rename", la, ld)))

delta_deleted_new_path(d, la, ld) ==
    IF d.new_file.path = None THEN Panicked
    ELSE Returned(Some(FileChange(d.new_file.path[1], None, "Delete", la, ld)))

delta_deleted(d, la, ld) ==
    IF d.old_file.path = None THEN Panicked
    ELSE Returned(Some(FileChange(d.old_file.path[1], None, "Delete", la, ld)))

delta_modified(d, la, ld) ==
    IF d.new_file.path = None THEN Panicked
    ELSE Returned(Some(FileChange(d.new_file.path[1], None, "Modify", la, ld)))

delta_copied(d, la, ld) ==
    IF d.old_file.path = None \/ d.new_file.path = None THEN Panicked
    ELSE Returned(Some(FileChange(d.new_file.path[1], Some(d.old_file.path[1]),
                                  "Copied", la, ld)))

summarise_delta(d, la, ld) ==
    CASE d.status = "Added" -> delta_added(d, la, ld)
      [] d.status = "Renamed" -> delta_renamed(d, la, ld)
      [] d.status = "Deleted" -> delta_deleted(d, la, ld)
      [] d.status = "Modified" -> delta_modified(d, la, ld)
      [] d.status = "Copied" -> delta_copied(d, la, ld)
      [] OTHER -> Returned(None)

----------------------------------------------------------------------------
(* The repository, as the code reads it through git2.                      *)
(* A blob is 0 (no entry at the path), 1 or 2 (text of that many lines,    *)
(* no line in common) or 3 (binary content).  A tree maps each path to a   *)
(* blob.  An object is a commit or something else the walk may emit.       *)

PathSeq == <<"a", "b">>
Blobs == 0..3
AllTrees == [Paths -> Blobs]
EmptyTree == [p \in Paths |-> 0]
IsBinary(blob) == blob = 3

\* Result<T, Error>
Ok(v) == [ok |-> TRUE, val |-> v]
Err(e) == [ok |-> FALSE, val |-> e]

\* Where a call into git2 can fail during a run; "none": no call fails.
OpenFaults == {"none", "discover", "odb", "revwalk", "push_head"}
WalkFaults == {"none", "walk", "read", "find_commit", "tree", "parent_tree",
               "diff", "find_similar", "patch", "line_stats"}

\* One entry of a diff: the DiffDelta handed to the code, and the blobs on its sides.
DiffEntry(status, old_path, new_path, old_blob, new_blob) ==
    [delta |-> DiffDelta(status, Some(old_path), Some(new_path)),
     old_blob |-> old_blob, new_blob |-> new_blob]

\* Repository::diff_tree_to_tree(old, new, None): one entry per path whose blob
\* differs, in path order; an absent tree is the empty tree.
diff_tree_to_tree(old_tree, new_tree) ==
    LET old == IF old_tree = None THEN EmptyTree ELSE old_tree[1]
        new == IF new_tree = None THEN EmptyTree ELSE new_tree[1]
        at(p) == IF old[p] = new[p] THEN <<>>
                 ELSE IF old[p] = 0 THEN <<DiffEntry("Added", p, p, 0, new[p])>>
                 ELSE IF new[p] = 0 THEN <<DiffEntry("Deleted", p, p, old[p], 0)>>
                 ELSE <<DiffEntry("Modified", p, p, old[p], new[p])>>
    IN Concat([i \in 1..Len(PathSeq) |-> at(PathSeq[i])])

\* Rename detection: each added file, in order, is paired with the first deleted
\* file of the same blob that no earlier added file took: <<added, deleted>>.
RECURSIVE RenamePairs(_, _, _)
RenamePairs(diff, i, used) ==
    IF i > Len(diff) THEN {}
    ELSE LET sources == {j \in 1..Len(diff) :
                            /\ j \notin used
                            /\ diff[j].delta.status = "Deleted"
                            /\ diff[j].old_blob = diff[i].new_blob}
         IN IF diff[i].delta.status = "Added" /\ sources # {}
            THEN {<<i, Min(sources)>>} \cup RenamePairs(diff, i + 1, used \cup {Min(sources)})
            ELSE RenamePairs(diff, i + 1, used)

\* Copy detection: an added file whose blob is the old blob of a modified file.
CopyOf(diff, e) ==
    LET sources == {j \in 1..Len(diff) :
                        diff[j].delta.status = "Modified" /\ diff[j].old_blob = e.new_blob}
    IN IF e.delta.status = "Added" /\ sources # {}
       THEN [e EXCEPT !.delta.status = "Copied",
                      !.delta.old_file = diff[Min(sources)].delta.old_file,
                      !.old_blob = diff[Min(sources)].old_blob]
       ELSE e

\* Diff::find_similar(None): renames are found; copies too when the repository's
\* diff.renames setting asks for them.  A rename replaces its pair of entries.
find_similar(diff, copies) ==
    LET pairs == RenamePairs(diff, 1, {})
        renamed(i) ==
            IF \E pr \in pairs : pr[2] = i THEN <<>>
            ELSE IF \E pr \in pairs : pr[1] = i
                 THEN LET j == (CHOOSE pr \in pairs : pr[1] = i)[2]
                      IN <<[diff[i] EXCEPT !.delta.status = "Renamed",
                                           !.delta.old_file = diff[j].delta.old_file,
                                           !.old_blob = diff[j].old_blob]>>
                 ELSE <<diff[i]>>
        after == Concat([i \in 1..Len(diff) |-> renamed(i)])
    IN IF copies THEN [i \in 1..Len(after) |-> CopyOf(after, after[i])] ELSE after

\* Patch::from_diff(diff, delta_index): no patch for binary content.
Patch_from_diff(diff, delta_index, fault) ==
    IF fault = "patch" THEN Err("patch")
    ELSE IF IsBinary(diff[delta_index].old_blob) \/ IsBinary(diff[delta_index].new_blob)
         THEN Ok(None)
         ELSE Ok(Some(diff[delta_index]))

\* Patch::line_stats: (context, additions, deletions); text blobs share no line.
line_stats(patch, fault) ==
    IF fault = "line_stats" THEN Err("line_stats")
    ELSE IF patch.old_blob = patch.new_blob THEN Ok(<<0, 0, 0>>)
         ELSE Ok(<<0, patch.new_blob, patch.old_blob>>)

----------------------------------------------------------------------------
(* scan_diffs and commit_file_changes *)

scan_delta_drops_unpatched(diff, delta_index, fault) ==
    LET patch == Patch_from_diff(diff, delta_index, fault)
    IN IF ~patch.ok THEN Panicked
       ELSE IF patch.val = None
            THEN Returned(None)
            ELSE LET stats == line_stats(patch.val[1], fault)
                 IN IF ~stats.ok THEN Panicked
                    ELSE summarise_delta(diff[delta_index].delta, stats.val[2], stats.val[3])

scan_delta_enumerate_after_filter(diff, delta_index, fault) ==
    LET kept == {j \in 1..delta_index : summarise_delta(diff[j].delta, 0, 0).value # None}
        patch_index == IF kept = {} THEN 1 ELSE Cardinality(kept)
        patch == Patch_from_diff(diff, patch_index, fault)
    IN IF ~patch.ok THEN Panicked
       ELSE IF patch.val = None
            THEN summarise_delta(diff[delta_index].delta, 0, 0)
            ELSE LET stats == line_stats(patch.val[1], fault)
                 IN IF ~stats.ok THEN Panicked
                    ELSE summarise_delta(diff[delta_index].delta, stats.val[2], stats.val[3])

\* The filter_map closure of scan_diffs (lines 252-265) at one delta.
scan_delta(diff, delta_index, fault) ==
    LET patch == Patch_from_diff(diff, delta_index, fault)
    IN IF ~patch.ok THEN Panicked
       ELSE IF patch.val = None
            THEN summarise_delta(diff[delta_index].delta, 0, 0)
            ELSE LET stats == line_stats(patch.val[1], fault)
                 IN IF ~stats.ok THEN Panicked
                    ELSE summarise_delta(diff[delta_index].delta, stats.val[2], stats.val[3])

\* The deltas of a diff, each with its patch's line counts, classified in order.
scan_deltas(diff, fault) ==
    LET out == [i \in 1..Len(diff) |-> scan_delta(diff, i, fault)]
    IN IF \E i \in 1..Len(out) : out[i].panic THEN Panicked
       ELSE Returned(Ok(Concat([i \in 1..Len(out) |-> out[i].value])))

scan_diffs_swapped(r, commit_tree, parent_tree, fault) ==
    IF fault = "diff" THEN Returned(Err("diff"))
    ELSE IF fault = "find_similar" THEN Returned(Err("find_similar"))
    ELSE scan_deltas(find_similar(diff_tree_to_tree(Some(commit_tree), parent_tree),
                                  r.find_copies), fault)

\* Result<Vec<FileChange>, Error>, or a panic.
scan_diffs(r, commit_tree, parent_tree, fault) ==
    IF fault = "diff" THEN Returned(Err("diff"))
    ELSE IF fault = "find_similar" THEN Returned(Err("find_similar"))
    ELSE scan_deltas(find_similar(diff_tree_to_tree(parent_tree, Some(commit_tree)),
                                  r.find_copies), fault)

scan_parents_first_parent(c, cfg) ==
    IF Len(c.parents) = 0 THEN <<None>>
    ELSE IF Len(c.parents) > 1 /\ ~cfg.include_merges THEN <<>>
    ELSE <<Some(c.parents[1])>>

scan_parents_skips_any_parent(c, cfg) ==
    IF Len(c.parents) = 0 THEN <<None>>
    ELSE IF Len(c.parents) > 0 /\ ~cfg.include_merges THEN <<>>
    ELSE [i \in 1..Len(c.parents) |-> Some(c.parents[i])]

\* The `parent` argument of each scan_diffs call commit_file_changes makes.
scan_parents(c, cfg) ==
    IF Len(c.parents) = 0 THEN <<None>>
    ELSE IF Len(c.parents) > 1 /\ ~cfg.include_merges THEN <<>>
    ELSE [i \in 1..Len(c.parents) |-> Some(c.parents[i])]

\* parent.tree().expect(..), then scan_diffs(..).expect(..), for one call.
scan_parent(r, c, commit_tree, parent, fault) ==
    IF parent # None /\ fault = "parent_tree" THEN Panicked
    ELSE LET parent_tree == IF parent = None THEN None
                            ELSE Some(r.objects[parent[1]].tree)
             scanned == scan_diffs(r, commit_tree, parent_tree, fault)
         IN IF scanned.panic \/ ~scanned.value.ok THEN Panicked
            ELSE Returned(scanned.value.val)

\* Vec<FileChange>, or a panic.
commit_file_changes(r, c, commit_tree, cfg, fault) ==
    LET calls == scan_parents(c, cfg)
        out == [i \in 1..Len(calls) |-> scan_parent(r, c, commit_tree, calls[i], fault)]
    IN IF \E i \in 1..Len(out) : out[i].panic THEN Panicked
       ELSE Returned(Concat([i \in 1..Len(out) |-> out[i].value]))

----------------------------------------------------------------------------
(* summarise_commit and log *)

GitLogConfig(include_merges) == [include_merges |-> include_merges]
DEFAULT_INCLUDES_MERGES == GitLogConfig(TRUE)
DEFAULT_GIT_LOG_CONFIG == GitLogConfig(FALSE)

\* Option::unwrap_or
unwrap_or(opt, default) == IF opt = None THEN default ELSE opt[1]

\* Oid::to_string
oid_to_string(oid) == ToString(oid)

Signature(name, email, seconds) == [name |-> name, email |-> email, when |-> seconds]

signature_to_user(signature) ==
    User(unwrap_or(signature.name, "[invalid name]"),
         unwrap_or(signature.email, "[invalid email]"))

GitLogEntry(oid, c, co, fcs) ==
    [id |-> oid_to_string(oid),
     summary |-> unwrap_or(c.summary, "[no message]"),
     parents |-> [i \in 1..Len(c.parents) |-> oid_to_string(c.parents[i])],
     committer |-> signature_to_user(c.committer),
     commit_time |-> c.committer.when,
     author |-> signature_to_user(c.author),
     author_time |-> c.author.when,
     co_authors |-> co,
     file_changes |-> fcs]

\* Result<Option<GitLogEntry>, Error>, or a panic out of commit_file_changes.
summarise_commit(r, oid, cfg, fault) ==
    IF fault \in {"walk", "read"} THEN Returned(Err(fault))
    ELSE IF r.objects[oid].kind = "Commit"
    THEN IF fault = "find_commit" THEN Returned(Err(fault))
         ELSE LET c == r.objects[oid]
                  co == IF c.message # None THEN find_coauthors(c.message[1]) ELSE <<>>
              IN IF fault = "tree" THEN Returned(Err(fault))
                 ELSE LET fcs == commit_file_changes(r, c, c.tree, cfg, fault)
                      IN IF fcs.panic THEN Panicked
                         ELSE Returned(Ok(Some(GitLogEntry(oid, c, co, fcs.value))))
    ELSE Returned(Ok(None))

\* What collect() keeps of the results so far, given one more Ok value.
collect_reversed(collected, item) == <<item>> \o collected

collect(collected, item) == Append(collected, item)

\* entries.into_iter().flat_map(|e| e).collect()
flat_map_until_none(collected) ==
    IF \E i \in 1..Len(collected) : collected[i] = None THEN <<>> ELSE Concat(collected)

flat_map(collected) == Concat(collected)

GitLog(es) == [entries |-> es]

\* What log() returns when no call fails, over a repository whose revision walk
\* yields the object ids of `walk` in that order (lines 112-120).
RECURSIVE collect_all(_, _, _)
collect_all(r, walk, cfg) ==
    IF walk = <<>> THEN <<>>
    ELSE collect(collect_all(r, SubSeq(walk, 1, Len(walk) - 1), cfg),
                 summarise_commit(r, walk[Len(walk)], cfg, "none").value.val)

log(r, walk, opt_config) ==
    Ok(GitLog(flat_map(collect_all(r, walk, unwrap_or(opt_config, DEFAULT_GIT_LOG_CONFIG)))))

----------------------------------------------------------------------------
(* The repositories a run is checked on *)

Range(f) == {f[i] : i \in DOMAIN f}
DistinctSeqs(S, n) == {q \in SeqsUpTo(S, n) : \A i, j \in 1..Len(q) : i # j => q[i] # q[j]}

\* Sample content, by object id.
SampleTree(oid) ==
    CASE oid = 1 -> [p \in Paths |-> IF p = "a" THEN 1 ELSE 0]
      [] oid = 2 -> [p \in Paths |-> IF p = "a" THEN 0 ELSE 1]
      [] oid = 3 -> [p \in Paths |-> IF p = "a" THEN 2 ELSE 1]
      [] OTHER -> [p \in Paths |-> IF p = "a" THEN 3 ELSE 2]

SampleMessage(oid) ==
    CASE oid = 1 -> None
      [] oid = 2 -> Some(<<"a", "\n", Keyword, "a", "<", "@", ">">>)
      [] OTHER -> Some(<<"a">>)

CommitObject(oid, parents, tree) ==
    [kind |-> "Commit", id |-> oid, parents |-> parents, tree |-> tree,
     message |-> SampleMessage(oid),
     summary |-> IF SampleMessage(oid) = None THEN None ELSE Some("a"),
     author |-> Signature(IF oid = 1 THEN None ELSE Some("author"), Some("a@a"), oid),
     committer |-> Signature(Some("committer"), IF oid = 2 THEN None ELSE Some("c@c"),
                             oid + 1)]

\* An annotated tag, or any other object that is no commit.
OtherObject(oid) == [kind |-> "Tag", id |-> oid]

\* The object tables with ids 1..n: an object is no commit, or a commit whose parents
\* are distinct commits of lower id.
ObjectsAfter(t, n) ==
    {OtherObject(n)} \cup
    {CommitObject(n, ps, SampleTree(n)) :
        ps \in DistinctSeqs({i \in 1..(n - 1) : t[i].kind = "Commit"}, MaxParents)}

RECURSIVE ObjectTables(_)
ObjectTables(n) ==
    IF n = 0 THEN {<<>>}
    ELSE UNION {{Append(t, o) : o \in ObjectsAfter(t, n)} : t \in ObjectTables(n - 1)}

Configs == {None} \cup {Some(GitLogConfig(b)) : b \in BOOLEAN}

----------------------------------------------------------------------------
(* Values of the variables an operation does not use *)

NoMessage == <<>>
NoDelta == DiffDelta("Unmodified", None, None)
NoRepo == [objects |-> <<>>, find_copies |-> FALSE]
NoChanges == Returned(<<>>)
NoResult == Err("running")

IdleCo == message = NoMessage /\ co_authors = <<>>
IdleDelta ==
    delta = NoDelta /\ lines_added = 0 /\ lines_deleted = 0 /\ change = Returned(None)
IdleChanges == commit = 0 /\ file_changes = NoChanges
NoScan == Returned(Ok(<<>>))
IdleLog ==
    walked = <<>> /\ entries = <<>> /\ diffs = <<>> /\ result = NoResult /\ failure = "none"
IdleScan == diff_deltas = <<>> /\ scan_result = NoScan
IdleRepo == repo = NoRepo /\ config = None

----------------------------------------------------------------------------
(* find_coauthors applied to every message within the bound *)

InitCo ==
    /\ pc = "find_coauthors"
    /\ message \in SeqsUpTo(MsgChars, MaxMsgLen)
    /\ co_authors = <<>>
    /\ IdleDelta /\ IdleChanges /\ IdleLog /\ IdleRepo /\ IdleScan

FindCoauthors ==
    /\ pc = "find_coauthors"
    /\ co_authors' = find_coauthors(message)
    /\ pc' = "found_coauthors"
    /\ UNCHANGED <<message, delta, lines_added, lines_deleted, change, repo, config,
                   commit, file_changes, walked, entries, diffs, result, failure,
                   diff_deltas, scan_result>>

NextCo == FindCoauthors

SpecCo == InitCo /\ [][NextCo]_vars

----------------------------------------------------------------------------
(* summarise_delta applied to every delta the interface can hand over *)

Deltas ==
    {DiffDelta(s, o, n) : s \in Statuses,
                          o \in {None} \cup {Some(p) : p \in Paths},
                          n \in {None} \cup {Some(p) : p \in Paths}}

InitDelta ==
    /\ pc = "summarise_delta"
    /\ delta \in Deltas
    /\ lines_added \in 0..MaxLines
    /\ lines_deleted \in 0..MaxLines
    /\ change = Returned(None)
    /\ IdleCo /\ IdleChanges /\ IdleLog /\ IdleRepo /\ IdleScan

SummariseDelta ==
    /\ pc = "summarise_delta"
    /\ change' = summarise_delta(delta, lines_added, lines_deleted)
    /\ pc' = "summarised_delta"
    /\ UNCHANGED <<message, co_authors, delta, lines_added, lines_deleted, repo, config,
                   commit, file_changes, walked, entries, diffs, result, failure,
                   diff_deltas, scan_result>>

NextDelta == SummariseDelta

SpecDelta == InitDelta /\ [][NextDelta]_vars

----------------------------------------------------------------------------
(* Claims about find_coauthors *)

RECURSIVE SortedSeq(_)
SortedSeq(S) == IF S = {} THEN <<>> ELSE <<Min(S)>> \o SortedSeq(S \ {Min(S)})

\* The lines of a text: where each starts, and its content without the line break.
TextLineStarts(m) == {1} \cup {i + 1 : i \in {j \in 1..Len(m) : m[j] = "\n"}}
TextLine(m, s) ==
    LET breaks == {e \in s..Len(m) : m[e] = "\n"}
    IN SubSeq(m, s, IF breaks = {} THEN Len(m) ELSE Min(breaks) - 1)

RECURSIVE StripLeading(_)
StripLeading(line) ==
    IF line # <<>> /\ Head(line) \in Whitespace THEN StripLeading(Tail(line)) ELSE line

IsTrailer(line) == StripLeading(line) # <<>> /\ Head(StripLeading(line)) = Keyword
TrailerRest(line) == Tail(StripLeading(line))

\* The rest-of-line texts of the trailer lines of a message, in order of appearance.
TrailerRests(m) ==
    LET starts == SortedSeq({s \in TextLineStarts(m) : IsTrailer(TextLine(m, s))})
    IN [i \in 1..Len(starts) |-> TrailerRest(TextLine(m, starts[i]))]

\* C6 as the claim states it: trim first, then classify first-match-wins.
ClaimedCoAuthor(rest) ==
    LET t == trim(rest)
        bits == CO_AUTH_ANGLE_BRACKETS(t)
    IN IF bits # None THEN User(trim(bits[1][1]), trim(bits[1][2]))
       ELSE IF contains(t, "@") THEN User(<<>>, t)
       ELSE User(t, <<>>)

\* C6: every matched trailer's rest text is trimmed and then classified: name <email>,
\* else email when it holds an "@", else name; whitespace after the ">" included.
C6_TrimThenClassify ==
    pc = "found_coauthors" =>
        co_authors = [i \in 1..Len(TrailerRests(message)) |->
                        ClaimedCoAuthor(TrailerRests(message)[i])]

\* C7: find_coauthors yields exactly one identity per line that, after optional
\* leading whitespace, begins with the keyword: in order, duplicates retained, and
\* nothing for a line where other text precedes the keyword.
C7_OneIdentityPerTrailerLine ==
    pc = "found_coauthors" =>
        co_authors = [i \in 1..Len(TrailerRests(message)) |->
                        co_author(TrailerRests(message)[i])]

\* A line where text precedes the keyword yields nothing; the trailer line after it
\* yields one identity.
C7_Witness ==
    /\ pc = "found_coauthors"
    /\ message = <<"a", Keyword, "\n", Keyword, "a">>
    /\ co_authors = <<User(<<"a">>, <<>>)>>

----------------------------------------------------------------------------
(* Claims about summarise_delta *)

Recognized == {"Added", "Deleted", "Modified", "Renamed", "Copied"}

\* What the paths the mapping names must be for the mapping to have a value.
PathsPresent(d) ==
    CASE d.status \in {"Added", "Modified"} -> d.new_file.path # None
      [] d.status = "Deleted" -> d.old_file.path # None
      [] d.status \in {"Renamed", "Copied"} ->
            d.old_file.path # None /\ d.new_file.path # None
      [] OTHER -> TRUE

\* C8: the status decides the kind and which of the delta's own paths are taken:
\* Added, Modified: the new path, no old_file; Deleted: the old path, no old_file;
\* Renamed, Copied: the new path and the old path; line counts as passed in.
C8_StatusMapping ==
    (pc = "summarised_delta" /\ delta.status \in Recognized /\ PathsPresent(delta)) =>
        /\ ~change.panic
        /\ change.value # None
        /\ LET fc == change.value[1]
           IN /\ fc.lines_added = lines_added
              /\ fc.lines_deleted = lines_deleted
              /\ fc.change = (CASE delta.status = "Added" -> "Add"
                                [] delta.status = "Deleted" -> "Delete"
                                [] delta.status = "Modified" -> "Modify"
                                [] delta.status = "Renamed" -> "Rename"
                                [] delta.status = "Copied" -> "Copied")
              /\ fc.file = (IF delta.status = "Deleted" THEN delta.old_file.path[1]
                            ELSE delta.new_file.path[1])
              /\ fc.old_file = (IF delta.status \in {"Renamed", "Copied"}
                                THEN Some(delta.old_file.path[1]) ELSE None)

\* A deletion whose two file records name different paths has been classified.
C8_Witness ==
    /\ pc = "summarised_delta"
    /\ delta = DiffDelta("Deleted", Some("a"), Some("b"))
    /\ lines_added = 1 /\ lines_deleted = 2
    /\ change = Returned(Some(FileChange("a", None, "Delete", 1, 2)))

\* C9: classification never fails: a recognized status yields a FileChange, any
\* other status yields none, whichever of the two paths are absent.
C9_ClassificationNeverFails ==
    pc = "summarised_delta" =>
        /\ ~change.panic
        /\ (delta.status \in Recognized <=> change.value # None)

----------------------------------------------------------------------------
(* commit_file_changes applied to a commit of any tree with parents of any trees *)

ChangesFaults == {"none", "parent_tree", "diff", "find_similar", "patch", "line_stats"}

InitChanges ==
    /\ pc = "commit_file_changes"
    /\ \E k \in 0..MaxParents : \E pt \in [1..k -> AllTrees] : \E ct \in AllTrees :
        /\ commit = k + 1
        /\ \E copies \in BOOLEAN :
            repo = [objects |-> [i \in 1..(k + 1) |->
                                    IF i <= k THEN CommitObject(i, <<>>, pt[i])
                                    ELSE CommitObject(i, [j \in 1..k |-> j], ct)],
                    find_copies |-> copies]
    /\ config \in {Some(GitLogConfig(b)) : b \in BOOLEAN}
    /\ file_changes = NoChanges
    /\ IdleCo /\ IdleDelta /\ IdleLog /\ IdleScan

CommitFileChanges ==
    /\ pc = "commit_file_changes"
    /\ \E fault \in ChangesFaults :
        file_changes' = commit_file_changes(repo, repo.objects[commit],
                                            repo.objects[commit].tree, config[1], fault)
    /\ pc' = "scanned"
    /\ UNCHANGED <<message, co_authors, delta, lines_added, lines_deleted, change, repo,
                   config, commit, walked, entries, diffs, result, failure,
                   diff_deltas, scan_result>>

NextChanges == CommitFileChanges

SpecChanges == InitChanges /\ [][NextChanges]_vars

----------------------------------------------------------------------------
(* log *)

Init ==
    /\ pc = "log"
    /\ \E t \in ObjectTables(MaxOid) : \E copies \in BOOLEAN :
        repo = [objects |-> t, find_copies |-> copies]
    /\ config \in Configs
    /\ walked = <<>> /\ entries = <<>> /\ diffs = <<>> /\ result = NoResult
    /\ failure = "none"
    /\ IdleCo /\ IdleDelta /\ IdleChanges /\ IdleScan

\* Lines 98-110: the repository is found and the walk is set up at the head, or log
\* returns the error of the call that failed.
LogOpen ==
    /\ pc = "log"
    /\ \E fault \in OpenFaults :
        /\ failure' = fault
        /\ IF fault = "none" THEN pc' = "walk" /\ UNCHANGED result
           ELSE pc' = "done" /\ result' = Err(fault)
    /\ UNCHANGED <<message, co_authors, delta, lines_added, lines_deleted, change, repo,
                   config, commit, file_changes, walked, entries, diffs, diff_deltas,
                   scan_result>>

\* Lines 114-116: collect() pulls the next object id from the walk and summarises it.
\* An Err ends the collection and log returns it; a panic unwinds out of log.
LogWalk ==
    /\ pc = "walk"
    /\ Len(walked) < MaxWalk
    /\ \E oid \in DOMAIN repo.objects \ Range(walked) : \E fault \in WalkFaults :
        LET cfg == unwrap_or(config, DEFAULT_GIT_LOG_CONFIG)
            out == summarise_commit(repo, oid, cfg, fault)
        IN /\ walked' = Append(walked, oid)
           /\ IF out.panic
              THEN /\ pc' = "panicked" /\ failure' = fault
                   /\ UNCHANGED <<entries, diffs, result>>
              ELSE IF ~out.value.ok
              THEN /\ pc' = "done" /\ result' = Err(out.value.val) /\ failure' = fault
                   /\ UNCHANGED <<entries, diffs>>
              ELSE /\ pc' = "walk"
                   /\ entries' = collect(entries, out.value.val)
                   /\ diffs' = Append(diffs, IF out.value.val = None THEN <<>>
                                             ELSE scan_parents(repo.objects[oid], cfg))
                   /\ UNCHANGED <<result, failure>>
    /\ UNCHANGED <<message, co_authors, delta, lines_added, lines_deleted, change, repo,
                   config, commit, file_changes, diff_deltas, scan_result>>

\* Lines 118-120: the walk is over; the entries are flattened into the GitLog.
LogReturn ==
    /\ pc = "walk"
    /\ result' = Ok(GitLog(flat_map(entries)))
    /\ pc' = "done"
    /\ UNCHANGED <<message, co_authors, delta, lines_added, lines_deleted, change, repo,
                   config, commit, file_changes, walked, entries, diffs, failure,
                   diff_deltas, scan_result>>

Next == LogOpen \/ LogWalk \/ LogReturn

Spec == Init /\ [][Next]_vars

----------------------------------------------------------------------------
(* Claims about log *)

IsCommit(oid) == repo.objects[oid].kind = "Commit"
WalkedCommits == SelectSeq(walked, IsCommit)
Succeeded == pc = "done" /\ result.ok
LogEntries == result.val.entries
IncludeMerges == config # None /\ config[1].include_merges

\* C1: a successful run returns exactly one entry per commit object the walk emitted,
\* with that commit's id, and none for any other object, however they interleave.
C1_OneEntryPerCommit ==
    Succeeded =>
        /\ Len(LogEntries) = Cardinality({i \in 1..Len(walked) : IsCommit(walked[i])})
        /\ \A i \in 1..Len(walked) :
            Cardinality({j \in 1..Len(LogEntries) :
                            LogEntries[j].id = oid_to_string(walked[i])})
                = IF IsCommit(walked[i]) THEN 1 ELSE 0

\* The walk emitted a commit, then another object, then a commit; the log has two entries.
C1_Witness ==
    /\ Succeeded
    /\ Len(walked) = 3
    /\ IsCommit(walked[1]) /\ ~IsCommit(walked[2]) /\ IsCommit(walked[3])
    /\ Len(LogEntries) = 2

\* C2: the entries are in the order the walk emitted their commits; skipped objects
\* reorder nothing.
C2_WalkOrder ==
    Succeeded =>
        [j \in 1..Len(LogEntries) |-> LogEntries[j].id]
            = [j \in 1..Len(WalkedCommits) |-> oid_to_string(WalkedCommits[j])]

\* The walk emitted commit 3, a non-commit, then commit 1: the log keeps that order.
C2_Witness ==
    /\ Succeeded
    /\ walked = <<3, 2, 1>>
    /\ ~IsCommit(2)
    /\ Len(LogEntries) = 2
    /\ LogEntries[1].id = "3" /\ LogEntries[2].id = "1"

\* C3: without include_merges (config None included) a commit with two or more
\* parents gets an entry with its id, parents, identities, times and co-authors,
\* with no file change, and no diff is computed for it.
C3_MergeWithoutFileChanges ==
    (Succeeded /\ ~IncludeMerges) =>
        \A i \in 1..Len(walked) :
            (IsCommit(walked[i]) /\ Len(repo.objects[walked[i]].parents) >= 2) =>
                /\ diffs[i] = <<>>
                /\ \E j \in 1..Len(LogEntries) :
                    LET e == LogEntries[j]
                        c == repo.objects[walked[i]]
                    IN /\ e.id = oid_to_string(walked[i])
                       /\ e.file_changes = <<>>
                       /\ e.parents = [k \in 1..Len(c.parents) |-> oid_to_string(c.parents[k])]
                       /\ e.committer = signature_to_user(c.committer)
                       /\ e.author = signature_to_user(c.author)
                       /\ e.commit_time = c.committer.when
                       /\ e.author_time = c.author.when
                       /\ e.co_authors = IF c.message = None THEN <<>>
                                         ELSE find_coauthors(c.message[1])

\* log(.., None) walked a merge whose tree differs from both parents' trees.
C3_Witness ==
    /\ Succeeded
    /\ config = None
    /\ walked = <<3>>
    /\ IsCommit(3) /\ repo.objects[3].parents = <<1, 2>>
    /\ repo.objects[3].tree # repo.objects[1].tree
    /\ repo.objects[3].tree # repo.objects[2].tree
    /\ Len(LogEntries) = 1
    /\ LogEntries[1].file_changes = <<>>

\* C10: in every log, a file change has an old_file exactly when it is a rename or a copy.
C10_OldFileIffRenameOrCopy ==
    Succeeded =>
        \A j \in 1..Len(LogEntries) : \A k \in 1..Len(LogEntries[j].file_changes) :
            LET fc == LogEntries[j].file_changes[k]
            IN fc.old_file # None <=> fc.change \in {"Rename", "Copied"}

AllChanges == Concat([j \in 1..Len(LogEntries) |-> LogEntries[j].file_changes])

\* A log that holds an addition, a rename and a copy.
C10_Witness ==
    /\ Succeeded
    /\ \E k \in 1..Len(AllChanges) :
        AllChanges[k].change = "Add" /\ AllChanges[k].old_file = None
    /\ \E k \in 1..Len(AllChanges) :
        AllChanges[k].change = "Rename" /\ AllChanges[k].old_file = Some("a")
    /\ \E k \in 1..Len(AllChanges) :
        AllChanges[k].change = "Copied" /\ AllChanges[k].old_file = Some("a")

----------------------------------------------------------------------------
(* Claims about commit_file_changes *)

Scanned == pc = "scanned" /\ ~file_changes.panic
TheCommit == repo.objects[commit]
ParentTree(i) == repo.objects[TheCommit.parents[i]].tree

\* The classified deltas of the diff from one tree to the commit's tree.
Classified(parent_tree) ==
    scan_deltas(find_similar(diff_tree_to_tree(parent_tree, Some(TheCommit.tree)),
                             repo.find_copies), "none").value.val

\* C4: with include_merges, a commit of two or more parents has the classified
\* deltas of the diff against each parent, concatenated in parent order, nothing
\* removed: a file changed alike against two parents is there once per parent.
C4_MergeConcatenatesPerParent ==
    (Scanned /\ Len(TheCommit.parents) >= 2 /\ config[1].include_merges) =>
        file_changes.value =
            Concat([i \in 1..Len(TheCommit.parents) |-> Classified(Some(ParentTree(i)))])

\* Both parents hold the same tree: the one changed file is reported once per parent.
C4_Witness ==
    /\ Scanned
    /\ config[1].include_merges
    /\ Len(TheCommit.parents) = 2
    /\ ParentTree(1) = ParentTree(2)
    /\ Len(file_changes.value) = 2
    /\ file_changes.value[1] = FileChange("a", None, "Modify", 2, 1)
    /\ file_changes.value[2] = file_changes.value[1]

\* C5: a commit without parents is diffed against the empty tree: its file changes
\* are one Add without old_file per file of its tree, whatever include_merges is and
\* whatever the files' content.
C5_RootCommitAddsEveryFile ==
    (Scanned /\ Len(TheCommit.parents) = 0) =>
        /\ \A k \in 1..Len(file_changes.value) :
            file_changes.value[k].change = "Add" /\ file_changes.value[k].old_file = None
        /\ [k \in 1..Len(file_changes.value) |-> file_changes.value[k].file]
            = SelectSeq(PathSeq, LAMBDA p : TheCommit.tree[p] # 0)

\* A root commit of two files of the same content, in a repository that detects copies.
C5_Witness ==
    /\ Scanned
    /\ Len(TheCommit.parents) = 0
    /\ repo.find_copies
    /\ config[1].include_merges
    /\ TheCommit.tree = [p \in Paths |-> 1]
    /\ file_changes.value = <<FileChange("a", None, "Add", 1, 0),
                              FileChange("b", None, "Add", 1, 0)>>

----------------------------------------------------------------------------
(* Claims about the failures of log *)

Failed == failure # "none"

\* C11: when a git2 call fails during a run of log() (discovery, the head, reading a
\* walked object, a commit, a commit tree, a parent tree, a diff or a patch), the run
\* ends with log() returning an Err to its caller and not a GitLog.
C11_FailureIsReturnedAsErr ==
    Failed => (pc = "done" /\ ~result.ok)

----------------------------------------------------------------------------
(* The delta loop of scan_diffs applied to every diff the interface can hand over *)

\* Statuses a diff can carry: the five the code classifies and two it does not.
ScanStatuses == {"Added", "Deleted", "Modified", "Renamed", "Copied",
                 "Typechange", "Unreadable"}
\* The blobs on the two sides of a delta: both text, or both binary.
ScanBlobs ==
    {bs \in (Blobs \ {0}) \X (Blobs \ {0}) : IsBinary(bs[1]) <=> IsBinary(bs[2])}
ScanEntries ==
    {DiffEntry(s, ps[1], ps[2], bs[1], bs[2]) :
        s \in ScanStatuses, ps \in {qs \in Paths \X Paths : qs[1] # qs[2]}, bs \in ScanBlobs}
ScanFaults == {"none", "patch", "line_stats"}

InitScan ==
    /\ pc = "scan_diffs"
    /\ diff_deltas \in SeqsUpTo(ScanEntries, MaxDeltas)
    /\ scan_result = NoScan
    /\ IdleCo /\ IdleDelta /\ IdleChanges /\ IdleLog /\ IdleRepo

\* Lines 249-266: every delta of the diff is paired with the patch at its index and
\* classified; a failing Patch::from_diff or line_stats panics.
ScanDeltas ==
    /\ pc = "scan_diffs"
    /\ \E fault \in ScanFaults :
        LET out == scan_deltas(diff_deltas, fault)
        IN /\ scan_result' = out
           /\ failure' = IF out.panic THEN fault ELSE "none"
    /\ pc' = "scanned_deltas"
    /\ UNCHANGED <<message, co_authors, delta, lines_added, lines_deleted, change, repo,
                   config, commit, file_changes, walked, entries, diffs, result,
                   diff_deltas>>

NextScan == ScanDeltas

SpecScan == InitScan /\ [][NextScan]_vars

----------------------------------------------------------------------------
(* Claims about the delta loop of scan_diffs *)

ScannedDeltas == pc = "scanned_deltas"
NoPatch(e) == IsBinary(e.old_blob) \/ IsBinary(e.new_blob)
KeptIndices == {i \in 1..Len(diff_deltas) : diff_deltas[i].delta.status \in Recognized}
\* Where the FileChange of the delta at index i stands among the emitted ones.
EmittedAt(i) == Cardinality({j \in KeptIndices : j <= i})

\* C12: when no git2 call fails, a diff with deltas for which no patch can be computed
\* (binary content) is scanned without a panic and without an error, and each such
\* delta of a recognized status still has its FileChange, with lines_added = 0 and
\* lines_deleted = 0, among the emitted ones.
C12_NoPatchGivesZeroCounts ==
    (ScannedDeltas /\ ~Failed) =>
        /\ ~scan_result.panic
        /\ scan_result.value.ok
        /\ Len(scan_result.value.val) = Cardinality(KeptIndices)
        /\ \A i \in KeptIndices :
            NoPatch(diff_deltas[i]) =>
                LET fc == scan_result.value.val[EmittedAt(i)]
                IN /\ fc.lines_added = 0
                   /\ fc.lines_deleted = 0
                   /\ fc.file = (IF diff_deltas[i].delta.status = "Deleted"
                                 THEN diff_deltas[i].delta.old_file.path[1]
                                 ELSE diff_deltas[i].delta.new_file.path[1])

\* A binary modification followed by a text addition.
C12_Witness ==
    /\ ScannedDeltas
    /\ ~Failed
    /\ diff_deltas = <<DiffEntry("Modified", "a", "b", 3, 3),
                       DiffEntry("Added", "a", "b", 1, 2)>>
    /\ scan_result = Returned(Ok(<<FileChange("b", None, "Modify", 0, 0),
                                   FileChange("b", None, "Add", 2, 1)>>))

\* The line counts of the patch at index i of the diff: zeros where there is no patch.
PatchCounts(i) ==
    LET patch == Patch_from_diff(diff_deltas, i, "none")
    IN IF patch.val = None THEN <<0, 0>>
       ELSE LET stats == line_stats(patch.val[1], "none").val
            IN <<stats[2], stats[3]>>

\* C15: the FileChanges a diff yields are those of its deltas of a recognized status,
\* in the deltas' order, and each carries the file of its delta and the line counts
\* of the patch at that delta's index, whichever deltas before it were dropped or
\* had no patch.
C15_CountsFollowDeltaIndex ==
    (ScannedDeltas /\ ~scan_result.panic) =>
        LET out == scan_result.value.val
            kept == SortedSeq(KeptIndices)
        IN /\ scan_result.value.ok
           /\ Len(out) = Len(kept)
           /\ \A k \in 1..Len(kept) :
                LET d == diff_deltas[kept[k]].delta
                IN /\ out[k].change = (CASE d.status = "Added" -> "Add"
                                         [] d.status = "Deleted" -> "Delete"
                                         [] d.status = "Modified" -> "Modify"
                                         [] d.status = "Renamed" -> "Rename"
                                         [] d.status = "Copied" -> "Copied")
                   /\ out[k].file = (IF d.status = "Deleted" THEN d.old_file.path[1]
                                     ELSE d.new_file.path[1])
                   /\ out[k].lines_added = PatchCounts(kept[k])[1]
                   /\ out[k].lines_deleted = PatchCounts(kept[k])[2]

\* A delta of an unrecognized status with a patch of different counts is dropped
\* ahead of a modification: the modification keeps its own counts.
C15_Witness ==
    /\ ScannedDeltas
    /\ diff_deltas = <<DiffEntry("Typechange", "b", "a", 1, 2),
                       DiffEntry("Modified", "a", "b", 2, 1)>>
    /\ scan_result = Returned(Ok(<<FileChange("b", None, "Modify", 1, 2)>>))

----------------------------------------------------------------------------
(* Claims about the configuration of log *)

\* The configuration of a run that differs from this one in include_merges only.
OtherConfig == Some(GitLogConfig(~IncludeMerges))
OtherEntries == log(repo, walked, OtherConfig).val.entries

\* C14: a run of log() with the other include_merges value over the same repository
\* and walk yields as many entries in the same order, equal in every field but
\* file_changes, and equal in file_changes too for every entry with at most one
\* parent.
C14_IncludeMergesOnlyTouchesMerges ==
    Succeeded =>
        LET mine == LogEntries
            other == OtherEntries
        IN /\ Len(other) = Len(mine)
           /\ \A k \in 1..Len(mine) :
                /\ other[k].id = mine[k].id
                /\ other[k].summary = mine[k].summary
                /\ other[k].parents = mine[k].parents
                /\ other[k].committer = mine[k].committer
                /\ other[k].commit_time = mine[k].commit_time
                /\ other[k].author = mine[k].author
                /\ other[k].author_time = mine[k].author_time
                /\ other[k].co_authors = mine[k].co_authors
                /\ (Len(mine[k].parents) <= 1 =>
                        other[k].file_changes = mine[k].file_changes)

\* A root commit, a one-parent commit and a merge were mined; the one-parent commit
\* has file changes, and the merge's file changes differ between the two runs.
C14_Witness ==
    /\ Succeeded
    /\ Len(LogEntries) = 3
    /\ \E k \in 1..3 : Len(LogEntries[k].parents) = 1 /\ LogEntries[k].file_changes # <<>>
    /\ \E k \in 1..3 :
        /\ Len(LogEntries[k].parents) = 2
        /\ OtherEntries[k].file_changes # LogEntries[k].file_changes

====
